---- MODULE Spec2Model ----
(***************************************************************************)
(* Model of ai/integrations/autogen/autogen_example.ipynb.                 *)
(*                                                                         *)
(* Part 1: Python float arithmetic, as used by calculate_vpd and           *)
(*         fahrenheit_to_celsius.  A Python float is an IEEE-754 binary    *)
(*         float; the model keeps the IEEE rules (round to nearest, ties   *)
(*         to even, gradual underflow, overflow to infinity, NaN) and      *)
(*         Python's exceptions (ZeroDivisionError on x / 0.0,              *)
(*         OverflowError from math.exp), at a reduced width: Precision     *)
(*         significand bits and largest exponent Emax instead of 53 and    *)
(*         1023.  Signed zeros are not distinguished.                      *)
(* Part 2: the two functions of the notebook and calls of them.            *)
(* Part 3: the notebook's cells, run in order against the registry.        *)
(***************************************************************************)
EXTENDS Integers, Sequences, FiniteSets, TLC

\* ------------------------------------------------------------------------
\* Part 1: floats
\* ------------------------------------------------------------------------

\* Width of the float format: significand bits and largest binary exponent.
Precision == 11
Emax == 28

Emin == 1 - Emax
\* Exponent of the unit in the last place of the smallest / largest binade.
EminU == Emin - Precision + 1
EmaxU == Emax - Precision + 1

Pow2(n) == 2 ^ n

Abs(i) == IF i < 0 THEN -i ELSE i

Sgn(i) == IF i < 0 THEN -1 ELSE IF i > 0 THEN 1 ELSE 0

Max2(i, j) == IF i >= j THEN i ELSE j

Min2(i, j) == IF i <= j THEN i ELSE j

RECURSIVE BitLen(_)
\* Number of bits of a natural number (0 for 0).
BitLen(n) == IF n = 0 THEN 0 ELSE 1 + BitLen(n \div 2)

\* A float: finite m * 2^e (m = 0, or e = EminU, or 2^(Precision-1) <= |m|),
\* an infinity (m = +1 / -1) or NaN.
Fin(m, e) == [k |-> "fin", m |-> m, e |-> e]

Inf(s) == [k |-> "inf", m |-> s, e |-> 0]

NaN == [k |-> "nan", m |-> 0, e |-> 0]

Zero == Fin(0, EminU)

IsFinite(x) == x.k = "fin"

IsNaN(x) == x.k = "nan"

IsInf(x) == x.k = "inf"

IsZero(x) == x.k = "fin" /\ x.m = 0

\* Sign of a float that is not NaN.
Sign(x) == Sgn(x.m)

MaxFloat == Fin(Pow2(Precision) - 1, EmaxU)

\* The float nearest to the exact value m * 2^e (ties to even); an infinity
\* when that is beyond the largest float.
Round(m, e) ==
  IF m = 0 THEN Zero
  ELSE LET am == Abs(m)
           nb == BitLen(am)
           te == Max2(e + nb - Precision, EminU)
           sh == te - e
       IN IF sh <= 0
          THEN IF te > EmaxU THEN Inf(Sgn(m)) ELSE Fin(m * Pow2(-sh), te)
          ELSE IF sh > nb + 1 THEN Zero
          ELSE LET q == am \div Pow2(sh)
                   rem == am % Pow2(sh)
                   half == Pow2(sh - 1)
                   up == rem > half \/ (rem = half /\ q % 2 = 1)
                   q1 == IF up THEN q + 1 ELSE q
                   carry == q1 = Pow2(Precision)
                   q2 == IF carry THEN Pow2(Precision - 1) ELSE q1
                   e2 == IF carry THEN te + 1 ELSE te
               IN IF q2 = 0 THEN Zero
                  ELSE IF e2 > EmaxU THEN Inf(Sgn(m))
                  ELSE Fin(Sgn(m) * q2, e2)

\* The float nearest to the exact value (n / d) * 2^e, for integers n and
\* d # 0: a quotient of at least Precision + 2 bits, its last bit set when the
\* division left a remainder, then rounded once.
RoundQuot(n, d, e) ==
  IF n = 0 THEN Zero
  ELSE LET an == Abs(n)
           ad == Abs(d)
           k == Max2(Precision + 3 + BitLen(ad) - BitLen(an), 0)
           num == an * Pow2(k)
           q == num \div ad
           qs == IF num % ad # 0 /\ q % 2 = 0 THEN q + 1 ELSE q
       IN Round(Sgn(n) * Sgn(d) * qs, e - k)

\* A decimal literal of the source, n / d, as Python's parser reads it: the
\* nearest float.
Dec(n, d) == RoundQuot(n, d, 0)

FNeg(x) == IF x.k = "nan" THEN NaN ELSE [x EXCEPT !.m = -x.m]

\* x + y on floats.
FAdd(x, y) ==
  IF x.k = "nan" \/ y.k = "nan" THEN NaN
  ELSE IF x.k = "inf" /\ y.k = "inf" THEN (IF x.m = y.m THEN x ELSE NaN)
  ELSE IF x.k = "inf" THEN x
  ELSE IF y.k = "inf" THEN y
  ELSE IF x.m = 0 THEN y
  ELSE IF y.m = 0 THEN x
  ELSE IF x.e - y.e > Precision + 2 THEN x
  ELSE IF y.e - x.e > Precision + 2 THEN y
  ELSE LET e == Min2(x.e, y.e)
       IN Round(x.m * Pow2(x.e - e) + y.m * Pow2(y.e - e), e)

\* x - y on floats.
FSub(x, y) == FAdd(x, FNeg(y))

\* x * y on floats.
FMul(x, y) ==
  IF x.k = "nan" \/ y.k = "nan" THEN NaN
  ELSE IF x.k = "inf" \/ y.k = "inf"
       THEN (IF x.m = 0 \/ y.m = 0 THEN NaN ELSE Inf(Sgn(x.m) * Sgn(y.m)))
  ELSE Round(x.m * y.m, x.e + y.e)

\* x / y on floats, for y # 0 (Python raises before dividing by zero).
FDiv(x, y) ==
  IF x.k = "nan" \/ y.k = "nan" THEN NaN
  ELSE IF x.k = "inf" THEN (IF y.k = "inf" THEN NaN
                            ELSE Inf(x.m * (IF y.m < 0 THEN -1 ELSE 1)))
  ELSE IF y.k = "inf" THEN Zero
  ELSE RoundQuot(x.m, y.m, x.e - y.e)

\* |x| rounded down to an integer, for a finite x.
IntPart(x) ==
  IF x.e >= 0 THEN Abs(x.m) * Pow2(x.e)
  ELSE IF -x.e >= Precision THEN 0
  ELSE Abs(x.m) \div Pow2(-x.e)

\* u * v on fixed-point numbers of 20 fraction bits (|u| < 2^19, 0 <= v < 2^21),
\* split so that every product stays in the machine integers.
MulFix(u, v) ==
  ((u \div 1024) * v) \div 1024 + ((u % 1024) * v) \div Pow2(20)

RECURSIVE ExpSeries(_, _)
\* exp(r) for |r| <= ln(2)/2 in fixed point: the Taylor series from term k on,
\* in Horner form, 1 + r/k * (1 + r/(k+1) * (...)).
ExpSeries(r, k) ==
  IF k > 10 THEN Pow2(20)
  ELSE Pow2(20) + MulFix(r, ExpSeries(r, k + 1)) \div k

\* The float of exp(x), by the usual reduction x = n * ln(2) + r,
\* exp(x) = 2^n * exp(r): faithful (within one unit in the last place), as the
\* C library's exp is.  An infinity for a finite x means the result is out of
\* range.
FExp(x) ==
  IF x.k = "nan" THEN NaN
  ELSE IF x.k = "inf" THEN (IF x.m > 0 THEN Inf(1) ELSE Zero)
  ELSE IF x.m = 0 THEN Fin(Pow2(Precision - 1), 1 - Precision)
  ELSE IF x.m > 0 /\ IntPart(x) >= Emax + 1 THEN Inf(1)
  ELSE IF x.m < 0 /\ IntPart(x) >= Emax + Precision + 2 THEN Zero
  ELSE LET ln2 == 726817
           sh == x.e + 20
           xf == IF sh >= 0 THEN x.m * Pow2(sh)
                 ELSE IF -sh > 30 THEN 0
                 ELSE x.m \div Pow2(-sh)
           n == (xf + ln2 \div 2) \div ln2
           r == xf - n * ln2
       IN Round(ExpSeries(r, 1), n - 20)

\* x < y and x <= y on floats (false when either is NaN).  With gradual
\* underflow x - y rounds to zero only when x = y, so the sign of the float
\* difference is the sign of the exact one.
FLt(x, y) ==
  /\ x.k # "nan" /\ y.k # "nan" /\ x # y
  /\ Sign(FSub(x, y)) < 0

FLe(x, y) == x.k # "nan" /\ y.k # "nan" /\ (x = y \/ FLt(x, y))

FAbs(x) == IF x.k = "nan" THEN NaN ELSE [x EXCEPT !.m = Abs(x.m)]

\* ------------------------------------------------------------------------
\* Part 2: the functions of the notebook
\* ------------------------------------------------------------------------

\* How a Python expression or call ends: with a value, or with an exception.
Return(v) == [kind |-> "return", val |-> v, exc |-> "none"]

Raise(exc) == [kind |-> "raise", val |-> NaN, exc |-> exc]

\* A statement that was not reached because an earlier one raised.
NotReached == [kind |-> "skipped", val |-> NaN, exc |-> "none"]

\* Variant of float_truediv: x / y by the IEEE 754 rules alone, a zero divisor
\* giving an infinity or NaN instead of an exception.
float_truediv_ieee(x, y) ==
  IF ~IsZero(y) THEN Return(FDiv(x, y))
  ELSE IF IsNaN(x) \/ IsZero(x) THEN Return(NaN)
  ELSE Return(Inf(Sign(x)))

\* x / y: Python raises ZeroDivisionError for a zero divisor.
float_truediv(x, y) ==
  IF IsZero(y) THEN Raise("ZeroDivisionError") ELSE Return(FDiv(x, y))

\* math.exp(x): OverflowError ("math range error") when the result of a finite
\* x is out of range; exp(inf) = inf, exp(-inf) = 0, exp(nan) = nan; an
\* underflow gives 0.0 silently.
math_exp(x) ==
  IF IsFinite(x) /\ IsInf(FExp(x)) THEN Raise("OverflowError")
  ELSE Return(FExp(x))

\* Variant of a: the decimal point one place off, a = 1.7625.
a_misplaced_point == Dec(17625, 10000)

\* a = 17.625, b = 243.04 and the scale 6.1094 of calculate_vpd.
a == Dec(17625, 1000)

b == Dec(24304, 100)

magnus_scale == Dec(61094, 10000)

\* (a * temp) / (b + temp), the argument of math.exp.
magnus_exponent(temp) == float_truediv(FMul(a, temp), FAdd(b, temp))

\* 6.1094 * math.exp((a * temp) / (b + temp)), the right-hand side of the
\* assignments to e_s and e_a.
magnus(temp) ==
  LET q == magnus_exponent(temp)
  IN IF q.kind = "raise" THEN q
     ELSE LET ex == math_exp(q.val)
          IN IF ex.kind = "raise" THEN ex
             ELSE Return(FMul(magnus_scale, ex.val))

\* e_s = 6.1094 * math.exp((a * temperature_c) / (b + temperature_c))
e_s(temperature_c) == magnus(temperature_c)

\* Variant of e_a: two digits of the scale transposed, 6.1049 for 6.1094.
e_a_transposed_scale(temperature_c, dew_point_c) ==
  LET q == magnus_exponent(dew_point_c)
  IN IF e_s(temperature_c).kind = "raise" THEN NotReached
     ELSE IF q.kind = "raise" THEN q
     ELSE IF math_exp(q.val).kind = "raise" THEN math_exp(q.val)
     ELSE Return(FMul(Dec(61049, 10000), math_exp(q.val).val))

\* e_a = 6.1094 * math.exp((a * dew_point_c) / (b + dew_point_c)); not reached
\* when the assignment to e_s raised.
e_a(temperature_c, dew_point_c) ==
  IF e_s(temperature_c).kind = "raise" THEN NotReached
  ELSE magnus(dew_point_c)

\* Variant of calculate_vpd: the operands of the difference swapped,
\* vpd = e_a - e_s.
calculate_vpd_swapped(temperature_c, dew_point_c) ==
  LET es == e_s(temperature_c)
      ea == e_a(temperature_c, dew_point_c)
  IN IF es.kind = "raise" THEN es
     ELSE IF ea.kind = "raise" THEN ea
     ELSE Return(FSub(ea.val, es.val))

\* Variant of calculate_vpd: a negative deficit clamped, vpd = max(e_s - e_a, 0).
calculate_vpd_clamped(temperature_c, dew_point_c) ==
  LET es == e_s(temperature_c)
      ea == e_a(temperature_c, dew_point_c)
  IN IF es.kind = "raise" THEN es
     ELSE IF ea.kind = "raise" THEN ea
     ELSE IF FLt(FSub(es.val, ea.val), Zero) THEN Return(Zero)
     ELSE Return(FSub(es.val, ea.val))

\* vpd = e_s - e_a; return vpd
calculate_vpd(temperature_c, dew_point_c) ==
  LET es == e_s(temperature_c)
      ea == e_a(temperature_c, dew_point_c)
  IN IF es.kind = "raise" THEN es
     ELSE IF ea.kind = "raise" THEN ea
     ELSE Return(FSub(es.val, ea.val))

\* Variant of fahrenheit_to_celsius: the factor folded,
\* return (fahrenheit - 32) * (5.0 / 9.0).
fahrenheit_to_celsius_folded(fahrenheit) ==
  Return(FMul(FSub(fahrenheit, Dec(32, 1)), FDiv(Dec(50, 10), Dec(90, 10))))

\* Variant of fahrenheit_to_celsius: the parentheses lost,
\* return fahrenheit - 32 * 5.0 / 9.0.
fahrenheit_to_celsius_unparenthesised(fahrenheit) ==
  Return(FSub(fahrenheit, FDiv(FMul(Dec(32, 1), Dec(50, 10)), Dec(90, 10))))

\* return (fahrenheit - 32) * 5.0 / 9.0
fahrenheit_to_celsius(fahrenheit) ==
  Return(FDiv(FMul(FSub(fahrenheit, Dec(32, 1)), Dec(50, 10)), Dec(90, 10)))

\* The Celsius-to-Fahrenheit conversion c * 9 / 5 + 32 (not in the notebook;
\* the inverse the round-trip property composes with).
celsius_to_fahrenheit(celsius) ==
  FAdd(FDiv(FMul(celsius, Dec(9, 1)), Dec(5, 1)), Dec(32, 1))

\* ------------------------------------------------------------------------
\* Calls of the two functions, on inputs drawn from bounded sets
\* ------------------------------------------------------------------------

VARIABLES
  call          \* the last call of one of the functions: arguments, locals, outcome

calcvars == <<call>>

\* The float next above a finite x (an infinity above the largest float).
Succ(x) ==
  IF x.m = -Pow2(Precision - 1) /\ x.e > EminU
  THEN Fin(-(Pow2(Precision) - 1), x.e - 1)
  ELSE Round(2 * x.m + 2, x.e - 1)

\* The float next below a finite x.
Pred(x) == FNeg(Succ(FNeg(x)))

\* Temperatures and dew points passed to calculate_vpd: far below the pole -b,
\* just below it, the pole and its neighbours, plausible air temperatures,
\* neighbouring floats, and the largest floats.
Temps ==
  { FNeg(MaxFloat), Dec(-100000, 1), Pred(Dec(-100000, 1)), Dec(-3000, 1),
    Dec(-250, 1), Pred(FNeg(b)), FNeg(b), Succ(FNeg(b)), Dec(-240, 1),
    Dec(-150, 1), Dec(-40, 1), Zero, Dec(20, 1), Dec(25, 1), Succ(Dec(25, 1)),
    Dec(100, 1), Dec(1000000, 1), Succ(Dec(1000000, 1)), MaxFloat }

\* Fahrenheit temperatures passed to fahrenheit_to_celsius.
Fahrenheits ==
  { Dec(32, 1), Dec(212, 1), Dec(9732, 10), Zero, Dec(-40, 1), Dec(986, 10),
    Dec(-45967, 100), Pred(Dec(32, 1)), Succ(Dec(32, 1)), Dec(5, 10),
    Dec(1, 10), Dec(1000000, 1), Dec(-1000000, 1), Dec(100000000, 1),
    Dec(-100000000, 1), Dec(200000000, 1), MaxFloat, FNeg(MaxFloat) }

\* Celsius temperatures whose Fahrenheit value is converted back.
Celsiuses ==
  { Zero, Dec(100, 1), Dec(-40, 1), Dec(37, 1), Dec(1, 10), Dec(-27315, 100),
    Dec(52289, 100), Dec(1, 1000), Dec(1000000, 1), Dec(50000000, 1),
    Dec(100000000, 1), Dec(-100000000, 1), MaxFloat, FNeg(MaxFloat) }

NoCall ==
  [fn |-> "none", x |-> NaN, y |-> NaN, c |-> NaN,
   es |-> NotReached, ea |-> NotReached, out |-> NotReached]

\* A call calculate_vpd(temperature_c, dew_point_c), with its locals e_s, e_a.
VpdCall(temperature_c, dew_point_c) ==
  [fn |-> "calculate_vpd", x |-> temperature_c, y |-> dew_point_c, c |-> NaN,
   es |-> e_s(temperature_c), ea |-> e_a(temperature_c, dew_point_c),
   out |-> calculate_vpd(temperature_c, dew_point_c)]

\* A call fahrenheit_to_celsius(fahrenheit); c is the Celsius value the argument
\* was converted from, if it was.
F2CCall(fahrenheit, celsius) ==
  [fn |-> "fahrenheit_to_celsius", x |-> fahrenheit, y |-> NaN, c |-> celsius,
   es |-> NotReached, ea |-> NotReached, out |-> fahrenheit_to_celsius(fahrenheit)]

\* Every call of calculate_vpd on the inputs above, by its arguments.
VpdCalls == [t \in Temps, d \in Temps |-> VpdCall(t, d)]

\* Every call of fahrenheit_to_celsius on the inputs above.
F2CCalls == {F2CCall(f, NaN) : f \in Fahrenheits}

\* Every conversion of a Celsius value to Fahrenheit and back.
RoundTripCalls == {F2CCall(celsius_to_fahrenheit(cel), cel) : cel \in Celsiuses}

CallVpd == \E t \in Temps, d \in Temps : call' = VpdCalls[t, d]

CallF2C == call' \in F2CCalls

CallRoundTrip == call' \in RoundTripCalls

\* ------------------------------------------------------------------------
\* Part 3: the notebook's code cells, run in order
\* ------------------------------------------------------------------------

VARIABLES
  env_key,       \* "OPENAI_API_KEY" in os.environ
  pc,            \* the code cell to run next (LastCell + 1: the run is over)
  error,         \* the exception that stopped the run, or "none"
  client,        \* the UnitycatalogFunctionClient of cell 3, or "none"
  defined,       \* the functions defined in the kernel by cell 4
  registry,      \* the catalog's functions: the state of the external registry
  next_id,       \* the function_id the registry gives to its next entry
  toolkit,       \* function_names of the UCFunctionToolkit, <<>> before cell 7
  tools,         \* toolkit.tools: the registry entries the names resolved to
  weather_agent, \* the AssistantAgent of cell 9, or NoAgent
  response,      \* response.chat_message of cell 10, or NoResponse
  network,       \* the requests this run sent to the registry and the model
  runs           \* how often the notebook was restarted and run again

nbvars ==
  <<env_key, pc, error, client, defined, registry, next_id, toolkit, tools,
    weather_agent, response, network, runs>>

vars == <<call, env_key, pc, error, client, defined, registry, next_id, toolkit,
          tools, weather_agent, response, network, runs>>

\* Restarts of the notebook that the model follows.
MaxRuns == 2

\* CATALOG = "AICatalog"; SCHEMA = "AISchema"
CATALOG == "AICatalog"

SCHEMA == "AISchema"

LastCell == 10

\* f"{catalog}.{schema}.{name}": a three-level name, kept as its three parts.
full_name(catalog, schema, name) == <<catalog, schema, name>>

\* The function objects of cell 4: __name__ and source body.
calculate_vpd_func ==
  [name |-> "calculate_vpd", routine_definition |-> "vpd = e_s - e_a"]

fahrenheit_to_celsius_func ==
  [name |-> "fahrenheit_to_celsius",
   routine_definition |-> "(fahrenheit - 32) * 5.0 / 9.0"]

\* A definition some earlier session left in the catalog under the same name.
stale_definition == "stale"

Entry(fn, body, id) ==
  [full_name |-> fn, routine_definition |-> body, function_id |-> id]

Entries(reg, fn) == {r \in reg : r.full_name = fn}

\* The registry's register(function, namespace, overwrite): a conflict error
\* when an entry exists under the name and overwrite is not requested; else the
\* entry under the name becomes the function given.
create_function(reg, id, func, catalog, schema, replace) ==
  LET fn == full_name(catalog, schema, func.name)
  IN IF Entries(reg, fn) # {} /\ ~replace
     THEN [ok |-> FALSE, registry |-> reg]
     ELSE [ok |-> TRUE,
           registry |-> (reg \ Entries(reg, fn))
                          \cup {Entry(fn, func.routine_definition, id)}]

\* The registry's lookup by name, as build_tools uses it.
Resolvable(reg, fn) == Entries(reg, fn) # {}

get_function(reg, fn) == CHOOSE r \in Entries(reg, fn) : TRUE

\* Executing a registered function: its routine_definition decides what runs.
execute_function(entry, args) ==
  IF entry.routine_definition = calculate_vpd_func.routine_definition
  THEN calculate_vpd(args[1], args[2])
  ELSE IF entry.routine_definition = fahrenheit_to_celsius_func.routine_definition
  THEN fahrenheit_to_celsius(args[1])
  ELSE Raise("StaleDefinition")

NoAgent == [created |-> FALSE, tools |-> <<>>]

NoResponse == [source |-> "none", tool |-> <<>>, result |-> NotReached]

RunStart(key) ==
  /\ env_key = key
  /\ pc = 1
  /\ error = "none"
  /\ client = "none"
  /\ defined = {}
  /\ toolkit = <<>>
  /\ tools = <<>>
  /\ weather_agent = NoAgent
  /\ response = NoResponse
  /\ network = <<>>

\* A cell runs when the run reached it and no earlier cell raised.
AtCell(n) == pc = n /\ error = "none"

\* Variant of cell 1 without the assertion: the cell passes whatever the
\* environment holds.
AssertKeyCell_unchecked ==
  /\ AtCell(1)
  /\ pc' = 2
  /\ UNCHANGED <<call, env_key, error, client, defined, registry, next_id,
                 toolkit, tools, weather_agent, response, network, runs>>

\* Cell 1: assert "OPENAI_API_KEY" in os.environ
AssertKeyCell ==
  /\ AtCell(1)
  /\ IF env_key
     THEN pc' = 2 /\ error' = error
     ELSE pc' = pc /\ error' = "AssertionError"
  /\ UNCHANGED <<call, env_key, client, defined, registry, next_id, toolkit,
                 tools, weather_agent, response, network, runs>>

\* Cell 2: the unitycatalog imports
ImportCell ==
  /\ AtCell(2)
  /\ pc' = 3
  /\ UNCHANGED <<call, env_key, error, client, defined, registry, next_id,
                 toolkit, tools, weather_agent, response, network, runs>>

\* Cell 3: client = UnitycatalogFunctionClient(api_client=api_client)
ClientCell ==
  /\ AtCell(3)
  /\ client' = "UnitycatalogFunctionClient"
  /\ pc' = 4
  /\ UNCHANGED <<call, env_key, error, defined, registry, next_id, toolkit,
                 tools, weather_agent, response, network, runs>>

\* Cell 4: def calculate_vpd, def fahrenheit_to_celsius
DefineCell ==
  /\ AtCell(4)
  /\ defined' = {calculate_vpd_func.name, fahrenheit_to_celsius_func.name}
  /\ pc' = 5
  /\ UNCHANGED <<call, env_key, error, client, registry, next_id, toolkit,
                 tools, weather_agent, response, network, runs>>

\* client.create_python_function(func=func, catalog=CATALOG, schema=SCHEMA,
\* replace=replace) in cell n.
Register(n, func, replace) ==
  /\ AtCell(n)
  /\ IF client = "none" \/ func.name \notin defined
     THEN /\ error' = "NameError"
          /\ UNCHANGED <<pc, registry, next_id, network>>
     ELSE LET res == create_function(registry, next_id, func, CATALOG, SCHEMA,
                                     replace)
          IN /\ network' = Append(network, "create_function")
             /\ registry' = res.registry
             /\ IF res.ok
                THEN pc' = n + 1 /\ next_id' = next_id + 1 /\ error' = error
                ELSE pc' = pc /\ next_id' = next_id /\ error' = "Conflict"
  /\ UNCHANGED <<call, env_key, client, defined, toolkit, tools, weather_agent,
                 response, runs>>

\* Variant of cell 5 without the overwrite flag (replace left at False).
RegisterVpdCell_no_replace == Register(5, calculate_vpd_func, FALSE)

\* Cell 5: client.create_python_function(func=calculate_vpd, catalog=CATALOG,
\* schema=SCHEMA, replace=True)
RegisterVpdCell == Register(5, calculate_vpd_func, TRUE)

\* Cell 6: client.create_python_function(func=fahrenheit_to_celsius,
\* catalog=CATALOG, schema=SCHEMA, replace=True)
RegisterF2CCell == Register(6, fahrenheit_to_celsius_func, TRUE)

\* vpd_tool = f"{CATALOG}.{SCHEMA}.calculate_vpd"
vpd_tool == full_name(CATALOG, SCHEMA, "calculate_vpd")

\* Variant of f_to_c_tool with the function's name misspelled.
f_to_c_tool_misspelled == full_name(CATALOG, SCHEMA, "fahrenheit_to_celcius")

\* f_to_c_tool = f"{CATALOG}.{SCHEMA}.fahrenheit_to_celsius"
f_to_c_tool == full_name(CATALOG, SCHEMA, "fahrenheit_to_celsius")

\* function_names=[vpd_tool, f_to_c_tool]
function_names == <<vpd_tool, f_to_c_tool>>

\* Cell 7: toolkit = UCFunctionToolkit(function_names=[vpd_tool, f_to_c_tool],
\* client=client); tools = toolkit.tools.  Each name is looked up in the
\* registry; the construction fails when one does not resolve.
ToolkitCell ==
  /\ AtCell(7)
  /\ network' = network \o [i \in 1..Len(function_names) |-> "get_function"]
  /\ IF \A i \in 1..Len(function_names) : Resolvable(registry, function_names[i])
     THEN /\ toolkit' = function_names
          /\ tools' = [i \in 1..Len(function_names) |->
                         get_function(registry, function_names[i])]
          /\ pc' = 8
          /\ error' = error
     ELSE /\ error' = "Unresolvable"
          /\ UNCHANGED <<pc, toolkit, tools>>
  /\ UNCHANGED <<call, env_key, client, defined, registry, next_id,
                 weather_agent, response, runs>>

\* Cell 8: tools (the cell only displays the list)
ShowToolsCell ==
  /\ AtCell(8)
  /\ pc' = 9
  /\ UNCHANGED <<call, env_key, error, client, defined, registry, next_id,
                 toolkit, tools, weather_agent, response, network, runs>>

\* Cell 9: OPENAI_API_KEY = os.environ["OPENAI_API_KEY"];
\* weather_agent = AssistantAgent(..., tools=tools, ...)
AgentCell ==
  /\ AtCell(9)
  /\ IF env_key
     THEN /\ weather_agent' = [created |-> TRUE, tools |-> tools]
          /\ pc' = 10
          /\ error' = error
     ELSE /\ error' = "KeyError"
          /\ UNCHANGED <<pc, weather_agent>>
  /\ UNCHANGED <<call, env_key, client, defined, registry, next_id, toolkit,
                 tools, response, network, runs>>

\* The arguments the model passes to a tool, after the tool's parameter list:
\* the question's 973.2 F, and 25 C with dew point 20 C.
ToolArguments(tool) ==
  IF tool.full_name[3] = "calculate_vpd" THEN <<Dec(25, 1), Dec(20, 1)>>
  ELSE <<Dec(9732, 10)>>

\* Cell 10: response = await weather_agent.on_messages([TextMessage(...)],
\* CancellationToken()).  The model is asked once; it answers in text or asks
\* for one of the agent's tools, which is then executed.
AskCell ==
  /\ AtCell(10)
  /\ weather_agent.created
  /\ network' = Append(network, "chat_completion")
  /\ \/ response' = [source |-> "assistant", tool |-> <<>>, result |-> NotReached]
     \/ \E i \in 1..Len(weather_agent.tools) :
          LET tool == weather_agent.tools[i]
          IN response' = [source |-> "assistant", tool |-> tool.full_name,
                          result |-> execute_function(tool, ToolArguments(tool))]
  /\ pc' = LastCell + 1
  /\ UNCHANGED <<call, env_key, error, client, defined, registry, next_id,
                 toolkit, tools, weather_agent, runs>>

\* The kernel is restarted and the notebook run again from the top; the
\* registry is a server and keeps its state.
Restart ==
  /\ pc = LastCell + 1 \/ error # "none"
  /\ runs < MaxRuns
  /\ runs' = runs + 1
  /\ env_key' \in BOOLEAN
  /\ pc' = 1
  /\ error' = "none"
  /\ client' = "none"
  /\ defined' = {}
  /\ toolkit' = <<>>
  /\ tools' = <<>>
  /\ weather_agent' = NoAgent
  /\ response' = NoResponse
  /\ network' = <<>>
  /\ UNCHANGED <<call, registry, next_id>>

\* What the catalog may hold under a function's name before the first run:
\* nothing, a stale definition, or the notebook's own definition.
PreEntries(func) ==
  LET fn == full_name(CATALOG, SCHEMA, func.name)
  IN { {}, {Entry(fn, stale_definition, 0)},
       {Entry(fn, func.routine_definition, 0)} }

InitialRegistries ==
  { r1 \cup r2 : r1 \in PreEntries(calculate_vpd_func),
                 r2 \in PreEntries(fahrenheit_to_celsius_func) }

Init ==
  /\ call = NoCall
  /\ \E key \in BOOLEAN : RunStart(key)
  /\ registry \in InitialRegistries
  /\ next_id = 1
  /\ runs = 0

Next ==
  \/ AssertKeyCell
  \/ ImportCell
  \/ ClientCell
  \/ DefineCell
  \/ RegisterVpdCell
  \/ RegisterF2CCell
  \/ ToolkitCell
  \/ ShowToolsCell
  \/ AgentCell
  \/ AskCell
  \/ Restart

Spec == Init /\ [][Next]_vars

\* The functions called on their own, outside a run of the notebook.
CalcInit ==
  /\ call = NoCall
  /\ RunStart(TRUE)
  /\ registry = {}
  /\ next_id = 1
  /\ runs = 0

CalcNext ==
  \/ CallVpd /\ UNCHANGED nbvars
  \/ CallF2C /\ UNCHANGED nbvars
  \/ CallRoundTrip /\ UNCHANGED nbvars

SpecCalc == CalcInit /\ [][CalcNext]_vars

\* ------------------------------------------------------------------------
\* Properties of fahrenheit_to_celsius (checked under SpecCalc)
\* ------------------------------------------------------------------------

\* The unit roundoff 2^-Precision: the largest relative error of one rounding.
unit_roundoff == Fin(Pow2(Precision - 1), 1 - 2 * Precision)

\* |x - y| <= ulps * 2^-Precision * |y|, in float arithmetic.
Close(x, y, ulps) ==
  /\ IsFinite(x) /\ IsFinite(y)
  /\ FLe(FAbs(FSub(x, y)), FMul(FMul(Dec(ulps, 1), unit_roundoff), FAbs(y)))

\* (fahrenheit - 32) * 5 stays in the range of the floats.
ScaledInRange(fahrenheit) ==
  IsFinite(fahrenheit) /\ IsFinite(FMul(FSub(fahrenheit, Dec(32, 1)), Dec(5, 1)))

\* The exact rational (fahrenheit - 32) * 5 / 9, rounded once: fahrenheit - 32
\* is taken exactly, as an integer multiple of 2^u.
ExactCelsius(fahrenheit) ==
  LET u == IF fahrenheit.m = 0 THEN 0 ELSE Min2(fahrenheit.e, 0)
      g == IF fahrenheit.m = 0 THEN -32
           ELSE fahrenheit.m * Pow2(fahrenheit.e - u) - 32 * Pow2(-u)
  IN RoundQuot(5 * g, 9, u)

IsF2C == call.fn = "fahrenheit_to_celsius"

\* C1 as stated: for every finite input fahrenheit_to_celsius returns
\* (f - 32) * 5 / 9 (a finite value, within rounding tolerance) and never fails.
C1_Original ==
  IsF2C =>
    /\ call.out.kind = "return"
    /\ IsFinite(call.out.val)
    /\ ScaledInRange(call.x) => Close(call.out.val, ExactCelsius(call.x), 6)

\* C1 amended: fahrenheit_to_celsius never raises; while (f - 32) * 5 is in the
\* range of the floats it returns (f - 32) * 5 / 9 within rounding tolerance
\* (exactly 0 at 32 and 100 at 212, and about 522.89 at 973.2); for larger
\* finite |f| the product overflows and it returns the infinity of f's sign.
C1_Conversion ==
  IsF2C =>
    /\ call.out.kind = "return"
    /\ IF ScaledInRange(call.x)
       THEN Close(call.out.val, ExactCelsius(call.x), 6)
       ELSE call.out.val = Inf(Sign(call.x))
    /\ call.x = Dec(32, 1) => call.out.val = Zero
    /\ call.x = Dec(212, 1) => call.out.val = Dec(100, 1)
    /\ call.x = Dec(9732, 10) => Close(call.out.val, Dec(52289, 100), 6)

\* Witness of C1: a call on a large finite input returned an infinity.
C1_Witness ==
  /\ IsF2C /\ IsFinite(call.x) /\ ~ScaledInRange(call.x)
  /\ call.out = Return(Inf(1))

\* The round trip stays in range: c * 9 / 5 + 32 and (f - 32) * 5 are finite.
RoundTripInRange(celsius) ==
  /\ IsFinite(FMul(celsius, Dec(9, 1)))
  /\ ScaledInRange(celsius_to_fahrenheit(celsius))

\* |x - c| <= 8 * 2^-Precision * (|c| + 4): the rounding errors of the six
\* operations of the round trip, for c next to the offset 32.
RoundTripClose(x, celsius) ==
  /\ IsFinite(x)
  /\ FLe(FAbs(FSub(x, celsius)),
         FMul(FMul(Dec(8, 1), unit_roundoff), FAdd(FAbs(celsius), Dec(4, 1))))

IsRoundTrip == IsF2C /\ call.c.k # "nan"

\* C5 as stated: for every finite c, fahrenheit_to_celsius(c * 9 / 5 + 32)
\* equals c within rounding tolerance.
C5_Original ==
  IsRoundTrip => RoundTripClose(call.out.val, call.c)

\* C5 amended: for every finite c whose round trip stays in the range of the
\* floats, fahrenheit_to_celsius(c * 9 / 5 + 32) is within rounding tolerance
\* (8 * 2^-Precision * (|c| + 4)) of c; for larger |c| an intermediate product
\* overflows and the round trip returns the infinity of c's sign.
C5_RoundTrip ==
  IsRoundTrip =>
    /\ call.x = celsius_to_fahrenheit(call.c)
    /\ call.out.kind = "return"
    /\ IF RoundTripInRange(call.c)
       THEN RoundTripClose(call.out.val, call.c)
       ELSE call.out.val = Inf(Sign(call.c))

\* Witness of C5: a round trip that stays in range and changes the value
\* within the tolerance.
C5_Witness ==
  /\ IsRoundTrip /\ RoundTripInRange(call.c)
  /\ call.out.val # call.c
  /\ RoundTripClose(call.out.val, call.c)

\* ------------------------------------------------------------------------
\* Properties of calculate_vpd (checked under SpecCalc)
\* ------------------------------------------------------------------------

IsVpd == call.fn = "calculate_vpd"

\* The pole of the Magnus exponent: b + temp = 0 at temp = -b.
Pole == FNeg(b)

AbovePole(temp) == FLt(Pole, temp)

BelowPole(temp) == FLt(temp, Pole)

SameSide(t1, t2) ==
  (AbovePole(t1) /\ AbovePole(t2)) \/ (BelowPole(t1) /\ BelowPole(t2))

ReturnsFinite(c) == c.out.kind = "return" /\ IsFinite(c.out.val)

\* A bound on the rounding error of magnus(temp), for a finite result: three
\* roundings in the exponent x (scaled by |x| through exp), exp itself and the
\* product with 6.1094; four units of the smallest float for an underflow.
Slack(temp) ==
  LET q == magnus_exponent(temp).val
      v == magnus(temp).val
      rel == FMul(FAdd(FMul(Dec(4, 1), FAbs(q)), Dec(4, 1)), unit_roundoff)
  IN FAdd(FMul(rel, FAbs(v)), Fin(4, EminU))

\* The rounding tolerance when the results v1, v2 of two calls that differ in
\* the argument t1 / t2 are compared.
Tolerance(t1, t2, v1, v2) ==
  FAdd(FAdd(Slack(t1), Slack(t2)),
       FMul(FMul(Dec(2, 1), unit_roundoff), FAdd(FAbs(v1), FAbs(v2))))

\* v1 <= v2 up to the tolerance tol.
LeqUpTo(v1, v2, tol) == FLe(FSub(v1, v2), tol)

\* b + temperature_c = 0, or (when e_s was computed) b + dew_point_c = 0.
ZeroDenominator(c) ==
  \/ IsZero(FAdd(b, c.x))
  \/ c.es.kind = "return" /\ IsZero(FAdd(b, c.y))

\* The argument of math.exp is finite and its exponential out of range.
ExpOutOfRange(temp) ==
  LET q == magnus_exponent(temp)
  IN q.kind = "return" /\ IsFinite(q.val) /\ IsInf(FExp(q.val))

\* C2 as stated: calculate_vpd(t, t) returns 0 for every finite t.
C2_Original ==
  IsVpd /\ call.x = call.y => call.out = Return(Zero)

\* C2 amended: calculate_vpd(t, t) returns 0 whenever e_s is finite, which
\* includes every t above -243.04 for which a * t does not overflow; at
\* t = -243.04 the call raises ZeroDivisionError, for an exponent beyond
\* math.exp's range (t just below -243.04) it raises OverflowError, and when
\* e_s is not finite it returns NaN.
C2_EqualInputs ==
  IsVpd /\ call.x = call.y =>
    /\ \/ call.out = Return(Zero) /\ IsFinite(call.es.val)
       \/ call.out = Raise("ZeroDivisionError") /\ IsZero(FAdd(b, call.x))
       \/ call.out = Raise("OverflowError") /\ ExpOutOfRange(call.x)
       \/ call.out = Return(NaN) /\ call.es.kind = "return"
            /\ ~IsFinite(call.es.val)
    /\ AbovePole(call.x) /\ IsFinite(FMul(a, call.x)) => call.out = Return(Zero)
    /\ call.x = Pole => call.out = Raise("ZeroDivisionError")

\* Witness of C2: the call at the pole, t = dew point = -b, raised.
C2_Witness ==
  /\ IsVpd /\ call.x = Pole /\ call.y = Pole
  /\ call.out = Raise("ZeroDivisionError")

\* C3 as stated: for t1 < t2 above the dew point,
\* calculate_vpd(t1, d) <= calculate_vpd(t2, d); for d1 < d2,
\* calculate_vpd(t, d1) >= calculate_vpd(t, d2); on either side of the pole.
\* (Stated on the pairs of calls that return a number.)
C3_Original ==
  IsVpd /\ call.out.kind = "return" /\ ~IsNaN(call.out.val) =>
    /\ \A t1 \in Temps :
         LET c1 == VpdCalls[t1, call.y]
         IN (/\ FLt(t1, call.x) /\ FLt(call.y, t1)
             /\ c1.out.kind = "return" /\ ~IsNaN(c1.out.val))
            => FLe(c1.out.val, call.out.val)
    /\ \A d1 \in Temps :
         LET c1 == VpdCalls[call.x, d1]
         IN (/\ FLt(d1, call.y)
             /\ c1.out.kind = "return" /\ ~IsNaN(c1.out.val))
            => FLe(call.out.val, c1.out.val)

\* C3 amended: when both calls return finite values and the two temperatures
\* (the two dew points) lie on the same side of the pole -243.04,
\* calculate_vpd(t1, d) <= calculate_vpd(t2, d) for d < t1 < t2 and
\* calculate_vpd(t, d1) >= calculate_vpd(t, d2) for d1 < d2, up to the rounding
\* error of the floats.
C3_Monotone ==
  IsVpd /\ ReturnsFinite(call) =>
    /\ \A t1 \in Temps :
         LET c1 == VpdCalls[t1, call.y]
         IN (/\ FLt(t1, call.x) /\ FLt(call.y, t1)
             /\ SameSide(t1, call.x) /\ ReturnsFinite(c1))
            => LeqUpTo(c1.out.val, call.out.val,
                       Tolerance(t1, call.x, c1.out.val, call.out.val))
    /\ \A d1 \in Temps :
         LET c1 == VpdCalls[call.x, d1]
         IN (/\ FLt(d1, call.y)
             /\ SameSide(d1, call.y) /\ ReturnsFinite(c1))
            => LeqUpTo(call.out.val, c1.out.val,
                       Tolerance(d1, call.y, c1.out.val, call.out.val))

\* Witness of C3: a call whose result is strictly above that of a call with
\* a lower temperature on the same side of the pole and the same dew point.
C3_Witness ==
  /\ IsVpd /\ ReturnsFinite(call)
  /\ \E t1 \in Temps :
       /\ FLt(t1, call.x) /\ FLt(call.y, t1) /\ SameSide(t1, call.x)
       /\ ReturnsFinite(VpdCalls[t1, call.y])
       /\ FLt(VpdCalls[t1, call.y].out.val, call.out.val)

\* A numeric edge case of the call: a zero denominator b + temp, or a
\* denominator so near zero that the exponential is out of range.
EdgeCase(c) ==
  \/ ZeroDenominator(c)
  \/ ExpOutOfRange(c.x)
  \/ c.es.kind = "return" /\ ExpOutOfRange(c.y)

IsVpd2520 == IsVpd /\ call.x = Dec(25, 1) /\ call.y = Dec(20, 1)

\* 6.1094*exp(17.625*temp/(243.04+temp)), written out in float operations.
MagnusValue(temp) ==
  FMul(Dec(61094, 10000),
       FExp(FDiv(FMul(Dec(17625, 1000), temp), FAdd(Dec(24304, 100), temp))))

C9_Original ==
  IsVpd /\ AbovePole(call.x) /\ AbovePole(call.y) =>
    /\ call.out.kind = "return"
    /\ call.out.val = FSub(call.es.val, call.ea.val)
    /\ FLt(call.x, call.y) => FLt(call.out.val, Zero)
    /\ FLt(Zero, call.out.val) <=> FLt(call.y, call.x)

\* C9 amended: for inputs above -243.04 the call never rejects: it returns
\* e_s - e_a as-is.  When that value is finite it is not above zero (beyond the
\* rounding error of the floats) for a dew point above the temperature and
\* not below zero for a temperature above the dew point; it is zero when e_s
\* and e_a round to the same float (both underflow to 0 next to the pole).
C9_Supersaturated ==
  IsVpd /\ AbovePole(call.x) /\ AbovePole(call.y) =>
    /\ call.out.kind = "return"
    /\ call.out.val = FSub(call.es.val, call.ea.val)
    /\ ReturnsFinite(call) /\ FLt(call.x, call.y) =>
         LeqUpTo(call.out.val, Zero, FAdd(Slack(call.x), Slack(call.y)))
    /\ ReturnsFinite(call) /\ FLt(call.y, call.x) =>
         LeqUpTo(Zero, call.out.val, FAdd(Slack(call.x), Slack(call.y)))
    /\ call.x = Succ(Pole) => call.out.val = FNeg(call.ea.val)

\* Witness of C9: a supersaturated call (dew point above the temperature, both
\* above the pole) returned a negative value.
C9_Witness ==
  /\ IsVpd /\ AbovePole(call.x) /\ FLt(call.x, call.y)
  /\ ReturnsFinite(call) /\ FLt(call.out.val, Zero)

\* ------------------------------------------------------------------------
\* Properties of the notebook run (checked under Spec)
\* ------------------------------------------------------------------------

\* C6: without OPENAI_API_KEY in the environment the run stops at the first
\* code cell with AssertionError, before any request is sent: no client is
\* created, no function is defined or registered, no toolkit is built, no agent
\* is created and no model call is made in that run.
C6_MissingKey ==
  /\ [](~env_key =>
          /\ pc = 1
          /\ error \in {"none", "AssertionError"}
          /\ client = "none"
          /\ defined = {}
          /\ network = <<>>
          /\ toolkit = <<>> /\ tools = <<>>
          /\ weather_agent = NoAgent
          /\ response = NoResponse)
  /\ [][~env_key =>
          /\ registry' = registry /\ next_id' = next_id
          /\ error = "none" => error' = "AssertionError" /\ pc' = 1]_vars

\* Witness of C6: a run without the key, after an earlier run, stopped at
\* cell 1 with AssertionError.
C6_Witness ==
  ~env_key /\ runs > 0 /\ pc = 1 /\ error = "AssertionError" /\ network = <<>>

\* The entries of the registry under a name are exactly one, holding the
\* definition of func.
HoldsOnly(reg, func) ==
  \E r \in reg :
    /\ Entries(reg, full_name(CATALOG, SCHEMA, func.name)) = {r}
    /\ r.routine_definition = func.routine_definition

\* The registration cell n registered func in this step: no error, one entry
\* under the name, which is the one just made, the other names as before.
Registered(n, func) ==
  AtCell(n) =>
    /\ error' = "none" /\ pc' = n + 1
    /\ Entries(registry', full_name(CATALOG, SCHEMA, func.name)) =
         {Entry(full_name(CATALOG, SCHEMA, func.name), func.routine_definition,
                next_id)}
    /\ \A r \in registry \cup registry' :
         r.full_name # full_name(CATALOG, SCHEMA, func.name) =>
           (r \in registry <=> r \in registry')

\* C7: whatever the registry held before and however often the notebook is
\* run again, the two registration cells never end in the conflict error; each
\* call succeeds, and afterwards the registry holds exactly one entry under
\* the function's full name, the definition registered last.
C7_NoConflict ==
  /\ [](/\ error # "Conflict"
        /\ \A r1, r2 \in registry : r1.full_name = r2.full_name => r1 = r2
        /\ pc > 5 => HoldsOnly(registry, calculate_vpd_func)
        /\ pc > 6 => HoldsOnly(registry, fahrenheit_to_celsius_func))
  /\ [][/\ Registered(5, calculate_vpd_func)
        /\ Registered(6, fahrenheit_to_celsius_func)]_vars

\* Witness of C7: in a repeated run both registrations replaced the entries of
\* the run before.
C7_Witness ==
  /\ runs > 0 /\ pc = 7 /\ error = "none" /\ next_id = 5
  /\ network = <<"create_function", "create_function">>

\* C10: in an in-order run the toolkit's construction never fails on an
\* unresolvable name: when cell 7 is reached both functions are registered
\* under CATALOG.SCHEMA, the names given to the toolkit are the full names of
\* the two registered functions, and the agent is created with the toolkit's
\* tools (and asked) only after the toolkit was built.
C10_InOrder ==
  /\ error # "Unresolvable"
  /\ AtCell(7) =>
       /\ \A i \in 1..Len(function_names) : Resolvable(registry, function_names[i])
       /\ {function_names[i] : i \in 1..Len(function_names)} =
            {r.full_name : r \in registry}
       /\ HoldsOnly(registry, calculate_vpd_func)
       /\ HoldsOnly(registry, fahrenheit_to_celsius_func)
  /\ pc > 7 =>
       /\ toolkit = <<full_name(CATALOG, SCHEMA, calculate_vpd_func.name),
                      full_name(CATALOG, SCHEMA, fahrenheit_to_celsius_func.name)>>
       /\ Len(tools) = Len(toolkit)
       /\ \A i \in 1..Len(tools) :
            tools[i].full_name = toolkit[i] /\ tools[i] \in registry
  /\ weather_agent.created => pc > 9 /\ weather_agent.tools = tools
  /\ response # NoResponse => weather_agent.created /\ pc > 10

\* Witness of C10: the run reached the end, the agent having called the
\* registered fahrenheit_to_celsius through the toolkit on 973.2.
C10_Witness ==
  /\ pc = LastCell + 1 /\ error = "none"
  /\ response.tool = f_to_c_tool
  /\ response.result.kind = "return"
  /\ Close(response.result.val, Dec(52289, 100), 6)

====
